---- MODULE Spec2Model ----
(***************************************************************************)
(* A model of the reflection core of my-reflection (simple_refl.h, the     *)
(* revision with ArgList, Metadata and inheritance support).               *)
(*                                                                         *)
(* The registry maps a class to its ReflectionBase; a ReflectionBase holds *)
(* the member table (m_offsets), the callable table (m_funcs) and the list *)
(* of declared bases (m_derived_from).  The client classes are those of    *)
(* the repository's tests: Base and Derived of derive_test, with the const *)
(* member and the methods of basic_tests::Vector3.                         *)
(***************************************************************************)
EXTENDS Integers, Sequences, FiniteSets, TLC

VARIABLES reg,   \* ReflectionRegistryBase::m_reflections : class -> ReflectionBase
          obj,   \* the client object : field name -> value
          ret,   \* what the last call returned, threw or did
          nreg,  \* number of registration calls made so far
          lists, \* the ArgList objects alive : identifier -> ArgList
          heap,  \* the arrays made by new RawArg[n], in allocation order
          nlist, \* number of ArgList objects constructed so far
          boxes,    \* the boxed return values, in creation order: the control block of each
          proxies,  \* the ReturnValueProxy identifiers in scope : identifier -> box
          phantom,  \* PhantomDataHelper::phantom_data, bottom first
          handles,  \* the shared handles the client holds (PhantomData, SharedObjectWrapper)
          raw       \* the pointer the last get_raw() returned, 0 before

\* the ArgList objects and their arrays
argvars == <<lists, heap, nlist>>

\* the boxed return values and their owners
boxvars == <<boxes, proxies, phantom, handles, raw>>

vars == <<reg, obj, ret, nreg, argvars, boxvars>>

----------------------------------------------------------------------------
(* Bounds *)

\* registration calls in one run
MaxRegs == 4
\* member values range over 0..MaxVal
MaxVal == 2
\* overloads registered under one name
MaxOverloads == 2

Vals == 0..MaxVal

----------------------------------------------------------------------------
(* Types.  A C++ type is a base type and its qualifiers. *)

Ty(b, q) == [b |-> b, q |-> q]

t_int == Ty("int", "")
t_cint == Ty("int", "const")
t_cintref == Ty("int", "const&")
t_float == Ty("float", "")
t_cfloat == Ty("float", "const")
t_void == Ty("void", "")

\* typeid(T): top-level cv-qualifiers and references are ignored
typeid(t) == t.b

\* remove_cvref_t<T>
remove_cvref_t(t) == Ty(t.b, "")

\* std::is_const_v<T>: false for a reference to const
is_const_v(t) == t.q = "const"

\* remove_const<T>::type
remove_const(t) == IF t.q = "const" THEN Ty(t.b, "") ELSE t

----------------------------------------------------------------------------
(* The client classes *)

Classes == {"Base", "Derived"}

\* the C++ classes an object of class c is an instance of
CppBases(c) == IF c = "Derived" THEN {"Base", "Derived"} ELSE {c}

\* data members: declaring class, declared type, byte offset in the object
Fields ==
    { [name |-> "x", cls |-> "Base", type |-> t_int, offset |-> 0],
      [name |-> "k", cls |-> "Base", type |-> t_cint, offset |-> 4],
      [name |-> "y", cls |-> "Derived", type |-> t_float, offset |-> 8] }

FieldNames == {f.name : f \in Fields}

\* sizeof(MemberType)
sizeof(t) == IF t.b = "void" THEN 0 ELSE 4

\* the object the calls are made on is a Derived; its address
ObjClass == "Derived"
ObjAddr == 4 * 16

\* the field an address inside the object designates ("" when none does)
FieldAt(addr) ==
    IF \E f \in Fields : ObjAddr + f.offset = addr
    THEN (CHOOSE f \in Fields : ObjAddr + f.offset = addr).name
    ELSE ""

\* *static_cast<T*>(addr)
Deref(o, addr) == IF FieldAt(addr) \in FieldNames THEN o[FieldAt(addr)] ELSE 0

Names == {"a", "b"}

\* the names the data member f is registered under: every member under "a",
\* x under "b" as well, so that a table can hold two members
RegNames(f) == IF f.name = "x" THEN Names ELSE {"a"}

----------------------------------------------------------------------------
(* Maps *)

EmptyMap == [n \in {} |-> 0]

\* std::unordered_map::emplace: inserts only when the key is absent
emplace(m, k, v) == IF k \in DOMAIN m THEN m ELSE [n \in DOMAIN m \cup {k} |-> IF n = k THEN v ELSE m[n]]

\* the table with the sequence at k replaced by the one entry v
append_at_replace(m, k, v) == [n \in DOMAIN m \cup {k} |-> IF n = k THEN <<v>> ELSE m[n]]

\* operator[] followed by emplace_back on the mapped vector
append_at(m, k, v) ==
    [n \in DOMAIN m \cup {k} |-> IF n \in DOMAIN m THEN (IF n = k THEN Append(m[n], v) ELSE m[n]) ELSE <<v>>]

----------------------------------------------------------------------------
(* The result of a call *)

NoRet ==
    [op |-> "init", cls |-> "", name |-> "", req |-> t_void, rargs |-> <<>>,
     kind |-> "", addr |-> 0, tag |-> "", val |-> 0, ran |-> <<>>, exc |-> "", excname |-> ""]

Call(op, c, n, req, rargs) ==
    [NoRet EXCEPT !.op = op, !.cls = c, !.name = n, !.req = req, !.rargs = rargs]

----------------------------------------------------------------------------
(* Member registry *)

\* struct Member, as register_member builds it for a data member
Member(f) ==
    [offset |-> f.offset, size |-> sizeof(f.type), is_const |-> is_const_v(f.type), type_info |-> typeid(f.type)]

\* ReflectionBase::ReflectionBase
ReflectionBase(c) ==
    [type |-> c, offsets |-> EmptyMap, funcs |-> EmptyMap, metadata |-> EmptyMap, derived_from |-> <<>>]

\* register_base storing the new reflection over an existing entry
register_base_assign(r, c) == [n \in DOMAIN r \cup {c} |-> IF n = c THEN ReflectionBase(c) ELSE r[n]]

\* ReflectionRegistryBase::register_base: insert keeps an existing entry
register_base(r, c) == emplace(r, c, ReflectionBase(c))

\* the program has not been ended by std::terminate, a crash or a runaway recursion
Running == ret.kind \notin {"abort", "diverge", "crash"}

Init ==
    /\ reg = EmptyMap
    /\ obj = [x |-> 0, k |-> 1, y |-> 2]
    /\ ret = NoRet
    /\ nreg = 0
    /\ lists = EmptyMap
    /\ heap = <<>>
    /\ nlist = 0
    /\ boxes = <<>>
    /\ proxies = EmptyMap
    /\ phantom = <<>>
    /\ handles = <<>>
    /\ raw = 0

\* make_reflection<ClassType>()
MakeReflection(c) ==
    /\ Running
    /\ nreg < MaxRegs
    /\ reg' = register_base(reg, c)
    /\ nreg' = nreg + 1
    /\ ret' = [Call("make_reflection", c, "", t_void, <<>>) EXCEPT !.val = reg'[c]]
    /\ UNCHANGED obj
    /\ UNCHANGED <<argvars, boxvars>>
\* ReflectionBase::register_member<MemberPtr>(name)
RegisterMember(c, n, f) ==
    /\ Running
    /\ nreg < MaxRegs
    /\ c \in DOMAIN reg
    /\ f.cls \in CppBases(c)
    /\ reg' = [reg EXCEPT ![c].offsets = emplace(@, n, Member(f))]
    /\ nreg' = nreg + 1
    /\ ret' = Call("register_member", c, n, f.type, <<>>)
    /\ UNCHANGED obj
    /\ UNCHANGED <<argvars, boxvars>>
\* ReflectionBase::derives_from<Parent>()
DerivesFrom(c, p) ==
    /\ Running
    /\ nreg < MaxRegs
    /\ c \in DOMAIN reg
    /\ reg' = [reg EXCEPT ![c].derived_from = Append(@, p)]
    /\ nreg' = nreg + 1
    /\ ret' = Call("derives_from", c, "", t_void, <<>>)
    /\ UNCHANGED obj
    /\ UNCHANGED <<argvars, boxvars>>
----------------------------------------------------------------------------
(* Member access *)

\* what a pointer-returning lookup yields: a pointer, nullptr, std::terminate
\* (an exception leaving a noexcept function) or unbounded recursion
Ptr(a) == [kind |-> "ptr", addr |-> a]
Null == [kind |-> "null", addr |-> 0]
Abort == [kind |-> "abort", addr |-> 0]
Diverge == [kind |-> "diverge", addr |-> 0]

RECURSIVE get_member_ref(_, _, _, _, _, _)
RECURSIVE get_member_ref_bases(_, _, _, _, _, _, _)

\* get_member_ref adding the member's size instead of its offset
get_member_ref_size(r, c, object, n, W, path) ==
    IF n \in DOMAIN r[c].offsets
    THEN IF r[c].offsets[n].type_info # typeid(W)
         THEN Null
         ELSE Ptr(object + r[c].offsets[n].size)
    ELSE IF c \in path
         THEN Diverge
         ELSE get_member_ref_bases(r, r[c].derived_from, 1, object, n, W, path \cup {c})

\* get_member_ref without the comparison of the stored type with the requested one
get_member_ref_unchecked(r, c, object, n, W, path) ==
    IF n \in DOMAIN r[c].offsets
    THEN Ptr(object + r[c].offsets[n].offset)
    ELSE IF c \in path
         THEN Diverge
         ELSE get_member_ref_bases(r, r[c].derived_from, 1, object, n, W, path \cup {c})

\* ReflectionBase::get_member_ref<MemberType, ClassType>(ClassType*, name) noexcept,
\* called on r[c]; path holds the reflections whose call is still on the stack
get_member_ref(r, c, object, n, W, path) ==
    IF n \in DOMAIN r[c].offsets
    THEN IF r[c].offsets[n].type_info # typeid(W)
         THEN Null
         ELSE Ptr(object + r[c].offsets[n].offset)
    ELSE IF c \in path
         THEN Diverge
         ELSE get_member_ref_bases(r, r[c].derived_from, 1, object, n, W, path \cup {c})

\* the loop over m_derived_from returning what the first base yields, null included
get_member_ref_bases_first(r, bases, i, object, n, W, path) ==
    IF i > Len(bases)
    THEN Null
    ELSE IF bases[i] \notin DOMAIN r
         THEN Abort
         ELSE get_member_ref(r, bases[i], object, n, W, path)

\* the loop over m_derived_from of get_member_ref
get_member_ref_bases(r, bases, i, object, n, W, path) ==
    IF i > Len(bases)
    THEN Null
    ELSE IF bases[i] \notin DOMAIN r
         THEN Abort
         ELSE LET propagated == get_member_ref(r, bases[i], object, n, W, path)
              IN  IF propagated.kind = "null"
                  THEN get_member_ref_bases(r, bases, i + 1, object, n, W, path)
                  ELSE propagated

\* the types a caller asks a member as
MemberReqTypes == {t_int, t_cint, t_float, t_cfloat}

\* p = refl.get_member_ref<W>(object, n), followed by a read of *p when p is not null
GetMemberRef(c, n, W) ==
    /\ Running
    /\ c \in DOMAIN reg
    /\ c \in CppBases(ObjClass)
    /\ LET p == get_member_ref(reg, c, ObjAddr, n, W, {})
       IN  ret' = [Call("get_member_ref", c, n, W, <<>>) EXCEPT
                      !.kind = p.kind, !.addr = p.addr,
                      !.val = IF p.kind = "ptr" THEN Deref(obj, p.addr) ELSE 0]
    /\ UNCHANGED <<reg, obj, nreg>>
    /\ UNCHANGED <<argvars, boxvars>>
\* a store of v into the storage at addr; storing into a const object is
\* undefined, the store may or may not take effect
Store(o, addr, v) ==
    IF FieldAt(addr) \notin FieldNames
    THEN {o}
    ELSE IF \E f \in Fields : f.name = FieldAt(addr) /\ is_const_v(f.type)
         THEN {o, [o EXCEPT ![FieldAt(addr)] = v]}
         ELSE {[o EXCEPT ![FieldAt(addr)] = v]}

\* *p = v through the pointer the last get_member_ref returned; it compiles
\* only when the pointee type asked for is not const
WriteThrough(v) ==
    /\ ret.op \in {"get_member_ref", "write_through"}
    /\ ret.kind = "ptr"
    /\ ~is_const_v(ret.req)
    /\ obj' \in Store(obj, ret.addr, v)
    /\ ret' = [ret EXCEPT !.op = "write_through", !.val = v]
    /\ UNCHANGED <<reg, nreg>>
    /\ UNCHANGED <<argvars, boxvars>>
\* RawObjectWrapper
RawObjectWrapper(object, type_index) == [kind |-> "wrapper", addr |-> object, tag |-> type_index]

\* RawObjectWrapper::none()
none == [kind |-> "none", addr |-> 0, tag |-> "void"]

\* RawObjectWrapper::is_none_type
is_none_type(w) == w.tag = "void"

RECURSIVE get_member_wrapped(_, _, _, _, _)
RECURSIVE get_member_wrapped_bases(_, _, _, _, _, _)

\* ReflectionBase::get_member_wrapped(void*, name), called on r[c]
get_member_wrapped(r, c, object, n, path) ==
    IF n \in DOMAIN r[c].offsets
    THEN RawObjectWrapper(object + r[c].offsets[n].offset, r[c].offsets[n].type_info)
    ELSE IF c \in path
         THEN [kind |-> "diverge", addr |-> 0, tag |-> ""]
         ELSE get_member_wrapped_bases(r, r[c].derived_from, 1, object, n, path \cup {c})

\* the loop over m_derived_from of get_member_wrapped; get_reflection throws
\* for a base that is not registered
get_member_wrapped_bases(r, bases, i, object, n, path) ==
    IF i > Len(bases)
    THEN none
    ELSE IF bases[i] \notin DOMAIN r
         THEN [kind |-> "throw", addr |-> 0, tag |-> ""]
         ELSE LET propagated == get_member_wrapped(r, bases[i], object, n, path)
              IN  IF propagated.kind \in {"wrapper", "none"} /\ is_none_type(propagated)
                  THEN get_member_wrapped_bases(r, bases, i + 1, object, n, path)
                  ELSE propagated

\* w = refl.get_member_wrapped(&object, n)
GetMemberWrapped(c, n) ==
    /\ Running
    /\ c \in DOMAIN reg
    /\ c \in CppBases(ObjClass)
    /\ LET w == get_member_wrapped(reg, c, ObjAddr, n, {})
       IN  ret' = [Call("get_member_wrapped", c, n, t_void, <<>>) EXCEPT
                      !.kind = w.kind, !.addr = w.addr, !.tag = w.tag,
                      !.exc = IF w.kind = "throw" THEN "reflection_registry_not_found_exception" ELSE "",
                      !.val = IF w.kind = "wrapper" THEN Deref(obj, w.addr) ELSE 0]
    /\ UNCHANGED <<reg, obj, nreg>>
    /\ UNCHANGED <<argvars, boxvars>>
\* the types a wrapper is written or built as
ValueTypes == {t_int, t_float}

\* RawObjectWrapper::set_value<T>(v) on the wrapper the last get_member_wrapped returned
SetValue(T, v) ==
    /\ ret.op \in {"get_member_wrapped", "set_value"}
    /\ ret.kind \in {"wrapper", "none"}
    /\ IF ret.tag = typeid(T)
       THEN /\ obj' \in Store(obj, ret.addr, v)
            /\ ret' = [ret EXCEPT !.op = "set_value", !.req = T, !.val = v, !.exc = ""]
       ELSE /\ obj' = obj
            /\ ret' = [ret EXCEPT !.op = "set_value", !.req = T, !.exc = "runtime_error"]
    /\ UNCHANGED <<reg, nreg>>
    /\ UNCHANGED <<argvars, boxvars>>
\* a setter that does not look at is_const
setter_unchecked(member, o, object, v) ==
    [exc |-> "", obj |-> IF FieldAt(object + member.offset) \in FieldNames
                         THEN [o EXCEPT ![FieldAt(object + member.offset)] = v]
                         ELSE o]

\* the setter Member::init_setter<MemberType> generates, applied to (obj, arg)
setter(member, o, object, v) ==
    IF member.is_const
    THEN [exc |-> "runtime_error", obj |-> o]
    ELSE [exc |-> "", obj |-> IF FieldAt(object + member.offset) \in FieldNames
                              THEN [o EXCEPT ![FieldAt(object + member.offset)] = v]
                              ELSE o]

\* ReflectionBase::set_member(void*, name, RawObjectWrapper) called on r[c]
\* with a wrapper of a value v of type T
set_member(r, c, o, object, n, T, v) ==
    IF n \in DOMAIN r[c].offsets
    THEN IF typeid(T) # r[c].offsets[n].type_info
         THEN [exc |-> "runtime_error", obj |-> o]
         ELSE setter(r[c].offsets[n], o, object, v)
    ELSE [exc |-> "runtime_error", obj |-> o]

\* refl.set_member(&object, n, wrap_object(&v))
SetMember(c, n, T, v) ==
    /\ Running
    /\ c \in DOMAIN reg
    /\ c \in CppBases(ObjClass)
    /\ LET s == set_member(reg, c, obj, ObjAddr, n, T, v)
       IN  /\ obj' = s.obj
           /\ ret' = [Call("set_member", c, n, T, <<>>) EXCEPT
                         !.kind = IF s.exc = "" THEN "ok" ELSE "throw",
                         !.exc = s.exc, !.val = v]
    /\ UNCHANGED <<reg, nreg>>
    /\ UNCHANGED <<argvars, boxvars>>
----------------------------------------------------------------------------
(* Callable registry *)

\* the client's methods and free functions: declared return and parameter types
Impls ==
    [overload_add_x_int |-> [kind |-> "method", cls |-> "Base", ret |-> t_int, args |-> <<t_int>>, const |-> FALSE],
     overload_add_x_float |-> [kind |-> "method", cls |-> "Base", ret |-> t_float, args |-> <<t_float>>, const |-> FALSE],
     add_x_by_1 |-> [kind |-> "method", cls |-> "Base", ret |-> t_void, args |-> <<>>, const |-> FALSE],
     add_x |-> [kind |-> "method", cls |-> "Base", ret |-> t_void, args |-> <<t_float>>, const |-> FALSE],
     get_x |-> [kind |-> "method", cls |-> "Base", ret |-> t_int, args |-> <<>>, const |-> TRUE],
     sum |-> [kind |-> "function", cls |-> "", ret |-> t_int, args |-> <<t_cintref, t_cintref>>, const |-> FALSE],
     ctor |-> [kind |-> "function", cls |-> "", ret |-> t_int, args |-> <<>>, const |-> FALSE]]

ImplIds == DOMAIN Impls

\* the i-th argument value a thunk forwards to the body
Arg(a, i) == IF i \in DOMAIN a THEN a[i] ELSE 0

\* the body of a method or function run on object state o with argument values a
Body(id, o, a) ==
    CASE id = "overload_add_x_int" -> [obj |-> [o EXCEPT !.x = @ + Arg(a, 1)], val |-> Arg(a, 1)]
      [] id = "overload_add_x_float" -> [obj |-> [o EXCEPT !.x = @ + Arg(a, 1)], val |-> o.x + Arg(a, 1)]
      [] id = "add_x_by_1" -> [obj |-> [o EXCEPT !.x = @ + 1], val |-> 0]
      [] id = "add_x" -> [obj |-> [o EXCEPT !.x = @ + Arg(a, 1)], val |-> 0]
      [] id = "get_x" -> [obj |-> o, val |-> o.x]
      [] id = "sum" -> [obj |-> o, val |-> Arg(a, 1) + Arg(a, 2)]
      [] OTHER -> [obj |-> o, val |-> 0]

\* the std::function type with the parameters left as declared
std_function_raw(self, R, A) == [self |-> self, ret |-> R, args |-> A]

\* the type of the std::function stored in CallableWrapper::method: a method
\* takes the object as a leading void*, parameters lose their cv and reference
std_function(self, R, A) == [self |-> self, ret |-> R, args |-> [i \in 1..Len(A) |-> remove_cvref_t(A[i])]]

\* extract_type_indices / typeid(ArgTypes)...
type_indices(A) == [i \in 1..Len(A) |-> typeid(A[i])]

\* the CallableWrapper register_method appends
MethodWrapper(id) ==
    [method |-> std_function(TRUE, Impls[id].ret, Impls[id].args),
     is_const |-> Impls[id].const,
     callable |-> id,
     return_type |-> typeid(Impls[id].ret),
     arg_types |-> type_indices(Impls[id].args),
     parent_type |-> Impls[id].cls]

\* the CallableWrapper register_function appends
FunctionWrapper(id) ==
    [method |-> std_function(FALSE, Impls[id].ret, Impls[id].args),
     is_const |-> FALSE,
     callable |-> id,
     return_type |-> typeid(Impls[id].ret),
     arg_types |-> type_indices(Impls[id].args),
     parent_type |-> "monostate"]

\* m_funcs.find(name): the overload set, empty when the name is absent
overloads(r, c, n) == IF n \in DOMAIN r[c].funcs THEN r[c].funcs[n] ELSE <<>>

\* ReflectionBase::register_method
RegisterMethod(c, n, id) ==
    /\ Running
    /\ nreg < MaxRegs
    /\ c \in DOMAIN reg
    /\ Impls[id].kind = "method"
    /\ Len(overloads(reg, c, n)) < MaxOverloads
    /\ Impls[id].cls \in CppBases(c)
    /\ reg' = [reg EXCEPT ![c].funcs = append_at(@, n, MethodWrapper(id))]
    /\ nreg' = nreg + 1
    /\ ret' = Call("register_method", c, n, Impls[id].ret, Impls[id].args)
    /\ UNCHANGED obj
    /\ UNCHANGED <<argvars, boxvars>>
\* ReflectionBase::register_function
RegisterFunction(c, n, id) ==
    /\ Running
    /\ nreg < MaxRegs
    /\ c \in DOMAIN reg
    /\ Impls[id].kind = "function"
    /\ Len(overloads(reg, c, n)) < MaxOverloads
    /\ reg' = [reg EXCEPT ![c].funcs = append_at(@, n, FunctionWrapper(id))]
    /\ nreg' = nreg + 1
    /\ ret' = Call("register_function", c, n, Impls[id].ret, Impls[id].args)
    /\ UNCHANGED obj
    /\ UNCHANGED <<argvars, boxvars>>
----------------------------------------------------------------------------
(* Invocation *)

\* a scan that takes the first overload without matching it
FirstAny(fns, accepted) == IF fns = <<>> THEN <<>> ELSE <<1>>

\* the first overload of fns the scan accepts, as a sequence of at most one
\* index; accepted is the set of the indices whose overload passes the test
FirstMatch(fns, accepted) ==
    IF accepted = {}
    THEN <<>>
    ELSE <<CHOOSE i \in accepted : \A j \in accepted : i <= j>>

\* every overload of fns the scan accepts, in registration order, from index i on
RECURSIVE AllMatches(_, _, _)
AllMatches(fns, accepted, i) ==
    IF i > Len(fns)
    THEN <<>>
    ELSE IF i \in accepted
         THEN <<i>> \o AllMatches(fns, accepted, i + 1)
         ELSE AllMatches(fns, accepted, i + 1)

\* fn.callable(object, args): the thunk casts object to the class and calls
\* the body; a method thunk given a null object dereferences it
RECURSIVE RunThunks(_, _, _, _, _)
RunThunks(fns, idx, o, null_object, a) ==
    IF idx = <<>>
    THEN [obj |-> o, val |-> 0, ran |-> <<>>, crash |-> FALSE]
    ELSE LET fn == fns[Head(idx)]
         IN  IF null_object /\ fn.parent_type # "monostate"
             THEN [obj |-> o, val |-> 0, ran |-> <<fn.callable>>, crash |-> TRUE]
             ELSE LET b == Body(fn.callable, o, a)
                      rest == RunThunks(fns, Tail(idx), b.obj, null_object, a)
                  IN  [obj |-> rest.obj,
                       val |-> IF Tail(idx) = <<>> THEN b.val ELSE rest.val,
                       ran |-> <<fn.callable>> \o rest.ran,
                       crash |-> rest.crash]

\* can_cast_to<std::function<ReturnType(void*, remove_cvref_t<ArgTypes>&&...)>>(fn.method)
method_cast(R, A, fn) == fn.method = std_function(TRUE, R, A)

\* can_cast_to<std::function<ReturnType(remove_cvref_t<ArgTypes>&&...)>>(fn.method)
function_cast(R, A, fn) == fn.method = std_function(FALSE, R, A)

\* is_parameter_match without the comparison of the sizes
is_parameter_match_prefix(parameters, actual_args) ==
    \A i \in 1..Len(parameters) : i <= Len(actual_args) => parameters[i] = actual_args[i]

\* ReflectionBase::is_parameter_match
is_parameter_match(parameters, actual_args) ==
    /\ Len(parameters) = Len(actual_args)
    /\ \A i \in 1..Len(parameters) : parameters[i] = actual_args[i]

\* an invocation that returns normally when the scan accepts no overload
invoke_first_silent(fns, idx, o, null_object, n, a) ==
    LET run == RunThunks(fns, idx, o, null_object, a)
    IN  [obj |-> run.obj, val |-> run.val, ran |-> run.ran,
         kind |-> IF run.crash THEN "crash" ELSE "ok", exc |-> "", excname |-> ""]

\* the outcome of an invocation that returns after the first accepted overload
\* and throws method_not_found_exception when the scan accepts none
invoke_first(fns, idx, o, null_object, n, a) ==
    LET run == RunThunks(fns, idx, o, null_object, a)
    IN  [obj |-> run.obj, val |-> run.val, ran |-> run.ran,
         kind |-> IF run.crash THEN "crash" ELSE IF idx = <<>> THEN "throw" ELSE "ok",
         exc |-> IF idx = <<>> THEN "method_not_found_exception" ELSE "",
         excname |-> IF idx = <<>> THEN n ELSE ""]

\* ReturnType invoke_method<ReturnType, ArgTypes...>(void*, name, args...), ReturnType not void
invoke_method_ret(r, c, o, n, R, A, a) ==
    LET fns == overloads(r, c, n)
        accepted == {i \in 1..Len(fns) : method_cast(R, A, fns[i])}
    IN  invoke_first(fns, FirstMatch(fns, accepted), o, FALSE, n, a)

\* void invoke_method<void, ArgTypes...>(void*, name, args...), at least one argument
invoke_method_void_args(r, c, o, n, A, a) ==
    LET fns == overloads(r, c, n)
        accepted == {i \in 1..Len(fns) : method_cast(t_void, A, fns[i])}
    IN  invoke_first(fns, FirstMatch(fns, accepted), o, FALSE, n, a)

\* void invoke_method<void>(void*, name): no return after the call, the loop
\* goes on and the function ends in the throw
invoke_method_void(r, c, o, n) ==
    LET fns == overloads(r, c, n)
        accepted == {i \in 1..Len(fns) : method_cast(t_void, <<>>, fns[i])}
        run == RunThunks(fns, AllMatches(fns, accepted, 1), o, FALSE, <<>>)
    IN  [obj |-> run.obj, val |-> 0, ran |-> run.ran,
         kind |-> "throw", exc |-> "method_not_found_exception", excname |-> n]

\* ReturnType invoke_function<ReturnType, ArgTypes...>(name, args...)
invoke_function_ret(r, c, o, n, R, A, a) ==
    LET fns == overloads(r, c, n)
        accepted == {i \in 1..Len(fns) : function_cast(R, A, fns[i])}
    IN  invoke_first(fns, FirstMatch(fns, accepted), o, FALSE, n, a)

\* ReturnValueProxy invoke_method(void*, name, const ArgList&)
invoke_method_arglist(r, c, o, n, tags, a) ==
    LET fns == overloads(r, c, n)
        accepted == {i \in 1..Len(fns) : is_parameter_match(fns[i].arg_types, tags)}
    IN  invoke_first(fns, FirstMatch(fns, accepted), o, FALSE, n, a)

\* ReturnValueProxy invoke_function(name, const ArgList&): the thunk gets nullptr
invoke_function_arglist(r, c, o, n, tags, a) ==
    LET fns == overloads(r, c, n)
        accepted == {i \in 1..Len(fns) : is_parameter_match(fns[i].arg_types, tags)}
    IN  invoke_first(fns, FirstMatch(fns, accepted), o, TRUE, n, a)

\* the argument lists and return types a caller asks for
ReqArgs == {<<>>, <<t_int>>, <<t_float>>, <<t_cintref>>, <<t_int, t_int>>, <<t_int, t_float>>}
ReqRets == {t_int, t_float}

\* the argument values of a call: every argument is 1
ArgVals(A) == [i \in 1..Len(A) |-> 1]

\* the call is made, its outcome recorded; the member x stays in range
Invoked(op, c, n, R, A, out) ==
    /\ out.obj.x \in Vals
    /\ obj' = out.obj
    /\ ret' = [Call(op, c, n, R, A) EXCEPT
                  !.kind = out.kind, !.exc = out.exc, !.excname = out.excname, !.ran = out.ran,
                  !.val = out.val]
    /\ UNCHANGED <<reg, nreg>>
    /\ UNCHANGED <<argvars, boxvars>>
InvokeMethodRet(c, n, R, A) ==
    /\ Running
    /\ c \in DOMAIN reg
    /\ c \in CppBases(ObjClass)
    /\ Invoked("invoke_method_ret", c, n, R, A, invoke_method_ret(reg, c, obj, n, R, A, ArgVals(A)))

InvokeMethodVoidArgs(c, n, A) ==
    /\ Running
    /\ c \in DOMAIN reg
    /\ c \in CppBases(ObjClass)
    /\ A # <<>>
    /\ Invoked("invoke_method_void_args", c, n, t_void, A, invoke_method_void_args(reg, c, obj, n, A, ArgVals(A)))

InvokeMethodVoid(c, n) ==
    /\ Running
    /\ c \in DOMAIN reg
    /\ c \in CppBases(ObjClass)
    /\ Invoked("invoke_method_void", c, n, t_void, <<>>, invoke_method_void(reg, c, obj, n))

InvokeFunctionRet(c, n, R, A) ==
    /\ Running
    /\ c \in DOMAIN reg
    /\ Invoked("invoke_function_ret", c, n, R, A, invoke_function_ret(reg, c, obj, n, R, A, ArgVals(A)))

\* invoke_method(&object, n, refl_args(args...))
InvokeMethodArgList(c, n, A) ==
    /\ Running
    /\ c \in DOMAIN reg
    /\ c \in CppBases(ObjClass)
    /\ Invoked("invoke_method_arglist", c, n, t_void, A,
               invoke_method_arglist(reg, c, obj, n, type_indices(A), ArgVals(A)))

\* invoke_function(n, refl_args(args...))
InvokeFunctionArgList(c, n, A) ==
    /\ Running
    /\ c \in DOMAIN reg
    /\ Invoked("invoke_function_arglist", c, n, t_void, A,
               invoke_function_arglist(reg, c, obj, n, type_indices(A), ArgVals(A)))

----------------------------------------------------------------------------
(* Registration and member access *)

NextMembers ==
    \/ \E c \in Classes : MakeReflection(c)
    \/ \E c \in Classes, f \in Fields : \E n \in RegNames(f) : RegisterMember(c, n, f)
    \/ \E c \in Classes, p \in Classes : DerivesFrom(c, p)
    \/ \E c \in Classes, n \in Names, W \in MemberReqTypes : GetMemberRef(c, n, W)
    \/ \E v \in Vals : WriteThrough(v)
    \/ \E c \in Classes, n \in Names : GetMemberWrapped(c, n)
    \/ \E T \in ValueTypes, v \in Vals : SetValue(T, v)
    \/ \E c \in Classes, n \in Names, T \in ValueTypes, v \in Vals : SetMember(c, n, T, v)
    \/ \E c \in Classes : RegisterMethod(c, "a", "get_x")
    \/ \E c \in Classes, n \in Names : InvokeMethodRet(c, n, t_int, <<>>)

SpecMembers == Init /\ [][NextMembers]_vars

----------------------------------------------------------------------------
(* Registration and invocation of callables on the reflection of Base, made *)
(* once; callables are registered under the name "a" *)

NextCalls ==
    \/ "Base" \notin DOMAIN reg /\ MakeReflection("Base")
    \/ \E id \in ImplIds : RegisterMethod("Base", "a", id)
    \/ \E id \in ImplIds : RegisterFunction("Base", "a", id)
    \/ \E n \in Names, R \in ReqRets, A \in ReqArgs : InvokeMethodRet("Base", n, R, A)
    \/ \E n \in Names, A \in ReqArgs : InvokeMethodVoidArgs("Base", n, A)
    \/ \E n \in Names : InvokeMethodVoid("Base", n)
    \/ \E n \in Names, R \in ReqRets, A \in ReqArgs : InvokeFunctionRet("Base", n, R, A)
    \/ \E n \in Names, A \in ReqArgs : InvokeMethodArgList("Base", n, A)
    \/ \E n \in Names, A \in ReqArgs : InvokeFunctionArgList("Base", n, A)

SpecCalls == Init /\ [][NextCalls]_vars

----------------------------------------------------------------------------
(* Properties of member access, checked under SpecMembers *)

\* the record of the member table the call of ret was resolved in
RetMember == reg[ret.cls].offsets[ret.name]

\* the call of ret named a member of the table of the reflection it was made on
RetInOwnTable == ret.cls \in DOMAIN reg /\ ret.name \in DOMAIN reg[ret.cls].offsets

\* the record m is the one a registration of the data member f leaves
RecordOf(m, f) == m.offset = f.offset /\ m.type_info = f.type.b /\ m.is_const = (f.type.q = "const")

\* C1: for a member f registered under a name with declared type T,
\* get_member_ref<T> returns the object's address plus the recorded offset,
\* the value read through the pointer is the object's value of f, a value
\* written through the pointer is the object's value of f afterwards, and an
\* invoked method that reads the member returns the object's value of it.
C1_RoundTrip ==
    /\ \A f \in Fields :
          (ret.op = "get_member_ref" /\ RetInOwnTable /\ RecordOf(RetMember, f) /\ ret.req = f.type)
              => /\ ret.kind = "ptr"
                 /\ ret.addr = ObjAddr + RetMember.offset
                 /\ ret.addr = ObjAddr + f.offset
                 /\ ret.val = obj[f.name]
    /\ \A f \in Fields :
          (ret.op = "write_through" /\ RetInOwnTable /\ RecordOf(RetMember, f) /\ ret.req = f.type)
              => obj[f.name] = ret.val
    /\ (ret.op = "invoke_method_ret" /\ ret.kind = "ok" /\ ret.ran = <<"get_x">>) => ret.val = obj.x

\* a value other than the initial one was written to x through the pointer
\* get_member_ref<int> returned for it, and x holds it
C1_Witness ==
    /\ ret.op = "write_through"
    /\ RetInOwnTable /\ RetMember.offset = 0 /\ ret.req = t_int
    /\ ret.addr = ObjAddr
    /\ ret.val = MaxVal
    /\ obj.x = MaxVal

C3_MissingNameNull ==
    (ret.op = "get_member_ref" /\ \A c \in DOMAIN reg : ret.name \notin DOMAIN reg[c].offsets)
        => ret.kind = "null"

\* the conditions under which C9 says set_member throws
SetMemberMustFail(r, call) ==
    \/ call.name \notin DOMAIN r[call.cls].offsets
    \/ r[call.cls].offsets[call.name].is_const
    \/ r[call.cls].offsets[call.name].type_info # call.req.b

\* C9: set_member throws when the member is const, when the wrapper's type
\* differs from the member's, and when the name is not in the member table,
\* and such a call leaves every member of the object as it was.
C9_SetMemberFails ==
    [][(ret'.op = "set_member" /\ SetMemberMustFail(reg, ret'))
          => (ret'.kind = "throw" /\ ret'.exc = "runtime_error" /\ obj' = obj)]_vars

\* set_member was called on a const member with a wrapper of its type and threw
C9_Witness ==
    /\ ret.op = "set_member"
    /\ RetInOwnTable
    /\ RetMember.is_const
    /\ RetMember.type_info = ret.req.b
    /\ ret.kind = "throw"

\* the data members declared const
ConstFields == {f \in Fields : f.type.q = "const"}

\* C10: a member registered const is never modified through the reflection
\* API, and get_member_ref does not hand out a pointer to non-const for a
\* member whose record has is_const set.
C10_ConstNeverWritable ==
    [][/\ (ret'.op = "get_member_ref" /\ ret'.kind = "ptr"
              /\ ret'.name \in DOMAIN reg[ret'.cls].offsets
              /\ reg[ret'.cls].offsets[ret'.name].is_const)
          => ret'.req.q = "const"
       /\ \A f \in ConstFields : obj'[f.name] = obj[f.name]]_vars

----------------------------------------------------------------------------
(* Properties of invocation, checked under SpecCalls *)

\* the overload set the call of ret was resolved in
RetOverloads == IF ret.cls \in DOMAIN reg THEN overloads(reg, ret.cls, ret.name) ELSE <<>>

TypedMethodOps == {"invoke_method_ret", "invoke_method_void_args", "invoke_method_void"}
TypedOps == TypedMethodOps \cup {"invoke_function_ret"}
ArgListOps == {"invoke_method_arglist", "invoke_function_arglist"}
InvokeOps == TypedOps \cup ArgListOps

\* the declared signature behind a CallableWrapper
Decl(fn) == Impls[fn.callable]

\* the argument types of the call are those of the declaration d, qualifiers aside
SameArgs(call, d) ==
    /\ Len(call.rargs) = Len(d.args)
    /\ \A i \in 1..Len(d.args) : call.rargs[i].b = d.args[i].b

\* the overload is of the kind the form of the call addresses, and for a typed
\* form the requested return type is the declared one
Addressed(call, fn) ==
    CASE call.op \in TypedMethodOps -> Decl(fn).kind = "method" /\ call.req = Decl(fn).ret
      [] call.op = "invoke_function_ret" -> Decl(fn).kind = "function" /\ call.req = Decl(fn).ret
      [] call.op = "invoke_function_arglist" -> Decl(fn).kind = "function"
      [] OTHER -> TRUE

\* no two overloads of the set have the same argument-type sequence
DistinctArgs(fns) ==
    \A i, j \in 1..Len(fns) :
        i # j => ~(Len(Decl(fns[i]).args) = Len(Decl(fns[j]).args)
                   /\ \A k \in 1..Len(Decl(fns[i]).args) : Decl(fns[i]).args[k].b = Decl(fns[j]).args[k].b)

\* C4 as stated: with two overloads of different argument-type sequences under
\* one name, an invocation of any form whose argument types are those of an
\* overload runs that overload's implementation exactly once and no other.
C4_ArgsAloneDispatch ==
    (ret.op \in InvokeOps /\ Len(RetOverloads) >= 2 /\ DistinctArgs(RetOverloads))
        => \A i \in 1..Len(RetOverloads) :
               SameArgs(ret, Decl(RetOverloads[i])) => ret.ran = <<RetOverloads[i].callable>>

\* C4 amended: the same, for an invocation whose form addresses the overload:
\* the ArgList-based invoke_method for any overload, the ArgList-based
\* invoke_function for a free function, the typed invoke_method for a method
\* and the typed invoke_function for a free function, both with the
\* overload's return type requested.
C4_Dispatch ==
    (ret.op \in InvokeOps /\ Len(RetOverloads) >= 2 /\ DistinctArgs(RetOverloads))
        => \A i \in 1..Len(RetOverloads) :
               (SameArgs(ret, Decl(RetOverloads[i])) /\ Addressed(ret, RetOverloads[i]))
                   => ret.ran = <<RetOverloads[i].callable>>

\* two overloads with different argument types, and the one registered second was run
C4_Witness ==
    /\ ret.op \in InvokeOps
    /\ Len(RetOverloads) = 2
    /\ DistinctArgs(RetOverloads)
    /\ SameArgs(ret, Decl(RetOverloads[2]))
    /\ ret.ran = <<RetOverloads[2].callable>>

\* the overloads a typed call matches by C5: same kind, same return type,
\* same number of arguments, same argument types once const and reference are removed
TypedMatches(call, fns) ==
    {i \in 1..Len(fns) : Addressed(call, fns[i]) /\ SameArgs(call, Decl(fns[i]))}

\* C5: a typed invocation runs an overload if and only if the requested return
\* type is the registered one and the requested argument types are the
\* registered ones after removing const and reference on both sides; a request
\* differing in return type, number of arguments or underlying argument type
\* runs nothing and throws method_not_found_exception.
C5_TypedMatch ==
    ret.op \in TypedOps
        => /\ ret.ran # <<>> <=> TypedMatches(ret, RetOverloads) # {}
           /\ \A k \in 1..Len(ret.ran) :
                  \E i \in TypedMatches(ret, RetOverloads) : RetOverloads[i].callable = ret.ran[k]
           /\ TypedMatches(ret, RetOverloads) = {}
                  => ret.kind = "throw" /\ ret.exc = "method_not_found_exception"

\* invoke_function<int>(name, int, int) ran the function registered with two const int& parameters
C5_Witness ==
    /\ ret.op = "invoke_function_ret"
    /\ ret.rargs = <<t_int, t_int>>
    /\ ret.kind = "ok"
    /\ ret.ran = <<"sum">>
    /\ Impls["sum"].args = <<t_cintref, t_cintref>>

\* the overloads whose stored tag sequence equals the ArgList's, position by position
TagMatches(call, fns) ==
    {i \in 1..Len(fns) :
        /\ Len(fns[i].arg_types) = Len(call.rargs)
        /\ \A k \in 1..Len(call.rargs) : fns[i].arg_types[k] = call.rargs[k].b}

\* C6: the ArgList-based invoke_method and invoke_function invoke the first
\* overload in registration order whose stored tags equal the ArgList's tags
\* in length and at every position, and throw method_not_found_exception,
\* invoking nothing, when there is none.
C6_ArgListFirstMatch ==
    ret.op \in ArgListOps
        => IF TagMatches(ret, RetOverloads) = {}
           THEN ret.kind = "throw" /\ ret.exc = "method_not_found_exception" /\ ret.ran = <<>>
           ELSE \E i \in TagMatches(ret, RetOverloads) :
                    /\ \A j \in TagMatches(ret, RetOverloads) : i <= j
                    /\ ret.ran = <<RetOverloads[i].callable>>

\* two different overloads with the same tags, and the one registered first was run
C6_Witness ==
    /\ ret.op \in ArgListOps
    /\ TagMatches(ret, RetOverloads) = {1, 2}
    /\ RetOverloads[1].callable # RetOverloads[2].callable
    /\ ret.ran = <<RetOverloads[1].callable>>

\* the name of the call is not registered, or no overload has the call's argument types
NoOverloadFor(r, call) ==
    \/ call.name \notin DOMAIN r[call.cls].funcs
    \/ \A i \in 1..Len(r[call.cls].funcs[call.name]) : ~SameArgs(call, Decl(r[call.cls].funcs[call.name][i]))

\* C7: invoking an unregistered name, or a registered name with argument types
\* that match no overload, throws method_not_found_exception carrying the
\* name, runs no thunk and leaves the object and the registry unchanged.
C7_NoMatchThrows ==
    [][(ret'.op \in InvokeOps /\ NoOverloadFor(reg, ret'))
          => /\ ret'.kind = "throw"
             /\ ret'.exc = "method_not_found_exception"
             /\ ret'.excname = ret'.name
             /\ ret'.ran = <<>>
             /\ obj' = obj
             /\ reg' = reg]_vars

\* a registered name was invoked with argument types of none of its overloads, and the call threw
C7_Witness ==
    /\ ret.op \in InvokeOps
    /\ ret.cls \in DOMAIN reg
    /\ ret.name \in DOMAIN reg[ret.cls].funcs
    /\ NoOverloadFor(reg, ret)
    /\ ret.rargs # <<>>
    /\ ret.kind = "throw"
    /\ ret.excname = ret.name

\* C8: invoke_method<void>(object, name) on a registered method without
\* arguments and result runs it exactly once and returns normally;
\* method_not_found_exception is thrown only when no overload of the name has
\* that signature, and then nothing has run.
C8_VoidNoArgReturns ==
    ret.op = "invoke_method_void"
        => /\ TypedMatches(ret, RetOverloads) # {} => ret.kind = "ok" /\ Len(ret.ran) = 1
           /\ ret.kind = "throw" => TypedMatches(ret, RetOverloads) = {} /\ ret.ran = <<>>

----------------------------------------------------------------------------
(* Introspection and the registry *)

\* the non-template is_member_const(name), which does not look at the type
is_member_const_untyped(r, c, n, Q) ==
    IF n \in DOMAIN r[c].offsets THEN r[c].offsets[n].is_const ELSE FALSE

\* ReflectionBase::is_member_const<MemberType>(name) noexcept, called on r[c]
is_member_const(r, c, n, Q) ==
    IF n \in DOMAIN r[c].offsets
    THEN IF r[c].offsets[n].type_info # typeid(Q)
         THEN FALSE
         ELSE r[c].offsets[n].is_const
    ELSE FALSE

\* refl.is_member_const<Q>(n)
IsMemberConst(c, n, Q) ==
    /\ Running
    /\ c \in DOMAIN reg
    /\ ret' = [Call("is_member_const", c, n, Q, <<>>) EXCEPT
                  !.kind = "ok", !.val = is_member_const(reg, c, n, Q)]
    /\ UNCHANGED <<reg, obj, nreg>>
    /\ UNCHANGED <<argvars, boxvars>>
\* an is_method_const that looks at the first overload only
is_method_const_first(r, c, n) ==
    overloads(r, c, n) # <<>> /\ overloads(r, c, n)[1].is_const

\* ReflectionBase::is_method_const(name) noexcept, called on r[c]
is_method_const(r, c, n) ==
    \E i \in 1..Len(overloads(r, c, n)) : overloads(r, c, n)[i].is_const

\* is_method_const looking the name up with m_funcs[name], which inserts an
\* empty overload set for a name that has none
IsMethodConst_subscript(c, n) ==
    /\ Running
    /\ c \in DOMAIN reg
    /\ reg' = [reg EXCEPT ![c].funcs = [k \in DOMAIN @ \cup {n} |-> IF k \in DOMAIN @ THEN @[k] ELSE <<>>]]
    /\ ret' = [Call("is_method_const", c, n, t_void, <<>>) EXCEPT !.kind = "ok", !.val = is_method_const(reg, c, n)]
    /\ UNCHANGED <<obj, nreg>>
    /\ UNCHANGED <<argvars, boxvars>>

\* refl.is_method_const(n)
IsMethodConst(c, n) ==
    /\ Running
    /\ c \in DOMAIN reg
    /\ ret' = [Call("is_method_const", c, n, t_void, <<>>) EXCEPT
                  !.kind = "ok", !.val = is_method_const(reg, c, n)]
    /\ UNCHANGED <<reg, obj, nreg>>
    /\ UNCHANGED <<argvars, boxvars>>
\* ReflectionBase::_parse_callable: FunctionInfo for a free function,
\* MethodInfo for a method
_parse_callable(func) ==
    IF func.parent_type = "monostate"
    THEN <<func.return_type, func.arg_types>>
    ELSE <<func.return_type, func.parent_type, func.arg_types>>

\* ReflectionBase::get_callable_map, called on r[c]
get_callable_map(r, c) ==
    [n \in DOMAIN r[c].funcs |->
        [i \in 1..Len(r[c].funcs[n]) |-> _parse_callable(r[c].funcs[n][i])]]

\* refl.get_callable_map()
GetCallableMap(c) ==
    /\ Running
    /\ c \in DOMAIN reg
    /\ ret' = [Call("get_callable_map", c, "", t_void, <<>>) EXCEPT
                  !.kind = "ok", !.val = get_callable_map(reg, c)]
    /\ UNCHANGED <<reg, obj, nreg>>
    /\ UNCHANGED <<argvars, boxvars>>
\* the metadata keys and values of the client
MetaKeys == {"a", "b"}
MetaVals == {1, 2}

\* make_metadata(value): the value tagged with its type
make_metadata(v) == [type_index |-> "int", data |-> v]

\* ReflectionBase::attach_metadata(name, metadata)
AttachMetadata(c, k, v) ==
    /\ Running
    /\ nreg < MaxRegs
    /\ c \in DOMAIN reg
    /\ reg' = [reg EXCEPT ![c].metadata = emplace(@, k, make_metadata(v))]
    /\ nreg' = nreg + 1
    /\ ret' = [Call("attach_metadata", c, k, t_int, <<>>) EXCEPT !.kind = "ok", !.val = v]
    /\ UNCHANGED obj
    /\ UNCHANGED <<argvars, boxvars>>

\* ReflectionBase::has_metadata
has_metadata(r, c, k) == k \in DOMAIN r[c].metadata

\* get_metadata answering a missing key with an empty Metadata
get_metadata_default(r, c, k) ==
    IF k \in DOMAIN r[c].metadata
    THEN [kind |-> "ok", val |-> r[c].metadata[k], exc |-> "", excname |-> ""]
    ELSE [kind |-> "ok", val |-> make_metadata(0), exc |-> "", excname |-> ""]

\* ReflectionBase::get_metadata
get_metadata(r, c, k) ==
    IF k \in DOMAIN r[c].metadata
    THEN [kind |-> "ok", val |-> r[c].metadata[k], exc |-> "", excname |-> ""]
    ELSE [kind |-> "throw", val |-> 0, exc |-> "metadata_not_found_exception", excname |-> k]

\* refl.has_metadata(k)
HasMetadata(c, k) ==
    /\ Running
    /\ c \in DOMAIN reg
    /\ ret' = [Call("has_metadata", c, k, t_void, <<>>) EXCEPT !.kind = "ok", !.val = has_metadata(reg, c, k)]
    /\ UNCHANGED <<reg, obj, nreg>>
    /\ UNCHANGED <<argvars, boxvars>>

\* refl.get_metadata(k)
GetMetadata(c, k) ==
    /\ Running
    /\ c \in DOMAIN reg
    /\ LET g == get_metadata(reg, c, k)
       IN  ret' = [Call("get_metadata", c, k, t_void, <<>>) EXCEPT
                      !.kind = g.kind, !.val = g.val, !.exc = g.exc, !.excname = g.excname]
    /\ UNCHANGED <<reg, obj, nreg>>
    /\ UNCHANGED <<argvars, boxvars>>

\* the text the constructor of reflection_registry_not_found_exception is
\* given (and prints), as the sequence of its parts
not_found_message(t) == <<"ReflectionRegistryBase not found for type with typeid: ", t>>

\* reflection_registry_not_found_exception::what(): the override returns a
\* fixed text, not the text the constructor was given
what(e) == <<"ReflectionRegistryBase not found.">>

\* a get_reflection that answers an unregistered type with an empty ReflectionBase
get_reflection_default(r, t) ==
    IF t \in DOMAIN r
    THEN [kind |-> "ok", val |-> r[t], exc |-> "", what |-> <<>>]
    ELSE [kind |-> "ok", val |-> ReflectionBase(t), exc |-> "", what |-> <<>>]

\* ReflectionRegistryBase::get_reflection(std::type_index)
get_reflection(r, t) ==
    IF t \in DOMAIN r
    THEN [kind |-> "ok", val |-> r[t], exc |-> "", what |-> <<>>]
    ELSE [kind |-> "throw", val |-> 0, exc |-> "reflection_registry_not_found_exception",
          what |-> what(not_found_message(t))]

\* try { get_reflection(typeid(c)) } catch (const std::exception& e) { e.what() }:
\* excname holds the text what() returns
GetReflection(c) ==
    /\ Running
    /\ LET g == get_reflection(reg, c)
       IN  ret' = [Call("get_reflection", c, "", t_void, <<>>) EXCEPT
                      !.kind = g.kind, !.val = g.val, !.exc = g.exc, !.excname = g.what]
    /\ UNCHANGED <<reg, obj, nreg>>
    /\ UNCHANGED <<argvars, boxvars>>
\* the callables registered in this scenario: a const method, a method and a free function
IntrospectIds == {"get_x", "add_x_by_1", "ctor"}

NextIntrospect ==
    \/ \E c \in Classes : MakeReflection(c)
    \/ \E f \in Fields : \E n \in RegNames(f) : RegisterMember("Base", n, f)
    \/ \E p \in Classes : DerivesFrom("Base", p)
    \/ \E n \in Names, id \in IntrospectIds : RegisterMethod("Base", n, id)
    \/ \E n \in Names, id \in IntrospectIds : RegisterFunction("Base", n, id)
    \/ \E k \in MetaKeys, v \in MetaVals : AttachMetadata("Base", k, v)
    \/ \E c \in Classes, k \in MetaKeys : HasMetadata(c, k)
    \/ \E c \in Classes, k \in MetaKeys : GetMetadata(c, k)
    \/ \E c \in Classes, n \in Names, Q \in MemberReqTypes : IsMemberConst(c, n, Q)
    \/ \E c \in Classes, n \in Names : IsMethodConst(c, n)
    \/ \E c \in Classes : GetCallableMap(c)
    \/ \E c \in Classes : GetReflection(c)

SpecIntrospect == Init /\ [][NextIntrospect]_vars

----------------------------------------------------------------------------
(* Properties of introspection and of the registry, checked under SpecIntrospect *)

\* C11: is_member_const<Q>(name) returns true exactly when the name is in the
\* member table of the reflection, the member was declared const and Q
\* without its const is the member's type without its const; it returns false
\* otherwise and never throws.
C11_IsMemberConst ==
    ret.op = "is_member_const"
        => /\ ret.kind = "ok"
           /\ ret.val = (/\ RetInOwnTable
                         /\ \E f \in Fields :
                                /\ RecordOf(RetMember, f)
                                /\ f.type.q = "const"
                                /\ remove_const(ret.req) = remove_const(f.type))

\* a const member asked for with its type without const is reported const
C11_Witness ==
    /\ ret.op = "is_member_const"
    /\ RetInOwnTable
    /\ RetMember.is_const
    /\ ret.req = t_int
    /\ ret.val = TRUE

\* C12: is_method_const(name) returns true if and only if an overload
\* registered under the name was registered from a const-qualified method.
C12_IsMethodConst ==
    ret.op = "is_method_const"
        => ret.val = (\E i \in 1..Len(RetOverloads) :
                         Decl(RetOverloads[i]).kind = "method" /\ Decl(RetOverloads[i]).const)

\* the name has a non-const overload first and a const one second, and is reported const
C12_Witness ==
    /\ ret.op = "is_method_const"
    /\ Len(RetOverloads) = 2
    /\ ~Decl(RetOverloads[1]).const
    /\ Decl(RetOverloads[2]).const
    /\ ret.val = TRUE

\* s is an initial part of t
IsPrefix(s, t) == Len(s) <= Len(t) /\ \A i \in 1..Len(s) : s[i] = t[i]

\* the CallableWrapper w is the one a registration of the signature (R, A) leaves
WrapperOf(w, R, A) ==
    /\ w.return_type = R.b
    /\ Len(w.arg_types) = Len(A)
    /\ \A i \in 1..Len(A) : w.arg_types[i] = A[i].b

\* C13: every step keeps each overload set as an initial part of what it
\* becomes; register_method and register_function append exactly one
\* CallableWrapper, that of the registered signature, to the set of their
\* name and leave every other set as it was; get_callable_map reports, for
\* each name, as many overloads as the set holds, in the same order.
C13_OverloadsAppendOnly ==
    [][/\ \A c \in DOMAIN reg :
              /\ c \in DOMAIN reg'
              /\ \A n \in Names : IsPrefix(overloads(reg, c, n), overloads(reg', c, n))
       /\ ret'.op \in {"register_method", "register_function"}
              => /\ Len(overloads(reg', ret'.cls, ret'.name)) = Len(overloads(reg, ret'.cls, ret'.name)) + 1
                 /\ WrapperOf(overloads(reg', ret'.cls, ret'.name)[Len(overloads(reg', ret'.cls, ret'.name))],
                              ret'.req, ret'.rargs)
                 /\ \A c \in DOMAIN reg, n \in Names :
                        (c # ret'.cls \/ n # ret'.name) => overloads(reg', c, n) = overloads(reg, c, n)
       /\ ret'.op = "get_callable_map"
              => /\ DOMAIN ret'.val = DOMAIN reg[ret'.cls].funcs
                 /\ \A n \in DOMAIN ret'.val :
                        /\ Len(ret'.val[n]) = Len(reg[ret'.cls].funcs[n])
                        /\ \A i \in 1..Len(ret'.val[n]) :
                               /\ ret'.val[n][i][1] = reg[ret'.cls].funcs[n][i].return_type
                               /\ ret'.val[n][i][Len(ret'.val[n][i])] = reg[ret'.cls].funcs[n][i].arg_types]_vars

\* get_callable_map reported two overloads of different signatures under one
\* name, in registration order, and one overload under another name
C13_Witness ==
    /\ ret.op = "get_callable_map"
    /\ DOMAIN ret.val = Names
    /\ Len(ret.val["a"]) = 2
    /\ ret.val["a"][1] # ret.val["a"][2]
    /\ ret.val["a"][1][1] = reg[ret.cls].funcs["a"][1].return_type
    /\ Len(ret.val["b"]) = 1

\* what the tables of the ReflectionBase a hold is still in the tables of b
Retained(a, b) ==
    /\ DOMAIN a.offsets \subseteq DOMAIN b.offsets
    /\ \A n \in DOMAIN a.offsets : b.offsets[n] = a.offsets[n]
    /\ DOMAIN a.funcs \subseteq DOMAIN b.funcs
    /\ \A n \in DOMAIN a.funcs : IsPrefix(a.funcs[n], b.funcs[n])
    /\ DOMAIN a.metadata \subseteq DOMAIN b.metadata
    /\ \A k \in DOMAIN a.metadata : b.metadata[k] = a.metadata[k]
    /\ IsPrefix(a.derived_from, b.derived_from)

\* C19: a type enters the registry by make_reflection alone and is never
\* removed, nor is anything registered on its ReflectionBase; get_reflection
\* of a type that has not been registered throws
\* reflection_registry_not_found_exception, and get_reflection of a
\* registered type returns the ReflectionBase stored for it.
C19_GetReflection ==
    [][/\ \A c \in DOMAIN reg : c \in DOMAIN reg' /\ Retained(reg[c], reg'[c])
       /\ \A c \in DOMAIN reg' \ DOMAIN reg : ret'.op = "make_reflection" /\ ret'.cls = c
       /\ ret'.op = "get_reflection"
              => IF ret'.cls \in DOMAIN reg
                 THEN ret'.kind = "ok" /\ ret'.val = reg[ret'.cls]
                 ELSE ret'.kind = "throw" /\ ret'.exc = "reflection_registry_not_found_exception"]_vars

\* get_reflection returned a ReflectionBase with a member, a callable and a
\* metadata entry registered on it
C19_Witness ==
    /\ ret.op = "get_reflection"
    /\ ret.kind = "ok"
    /\ ret.val = reg[ret.cls]
    /\ DOMAIN ret.val.offsets # {}
    /\ DOMAIN ret.val.funcs # {}
    /\ DOMAIN ret.val.metadata # {}

\* C20: when get_reflection fails, the exception is a
\* reflection_registry_not_found_exception and the text its what() returns
\* names the missing type.
C20_WhatNamesType ==
    (ret.op = "get_reflection" /\ ret.kind = "throw")
        => /\ ret.exc = "reflection_registry_not_found_exception"
           /\ \E i \in 1..Len(ret.excname) : ret.excname[i] = ret.cls

----------------------------------------------------------------------------
(* Inheritance delegation: the reflections of Base and Derived exist, as after *)
(* the static initialisers of derive_test; that of Vector3 may be made later *)

InheritClasses == Classes \cup {"Vector3"}

\* the types x and y are asked as
InheritReqTypes == {t_int, t_float}

InitInherit ==
    /\ reg = register_base(register_base(EmptyMap, "Base"), "Derived")
    /\ obj = [x |-> 0, k |-> 1, y |-> 2]
    /\ ret = NoRet
    /\ nreg = 0
    /\ lists = EmptyMap
    /\ heap = <<>>
    /\ nlist = 0
    /\ boxes = <<>>
    /\ proxies = EmptyMap
    /\ phantom = <<>>
    /\ handles = <<>>
    /\ raw = 0

NextInherit ==
    \/ MakeReflection("Vector3")
    \/ \E c \in InheritClasses, p \in InheritClasses : DerivesFrom(c, p)
    \/ \E c \in Classes, f \in Fields : \E n \in RegNames(f) : RegisterMember(c, n, f)
    \/ \E c \in Classes, n \in Names, W \in InheritReqTypes : GetMemberRef(c, n, W)

SpecInherit == InitInherit /\ [][NextInherit]_vars

\* what the i-th declared base of the reflection asked yields when the same
\* lookup is made on it
BaseYields(i) ==
    IF reg[ret.cls].derived_from[i] \in DOMAIN reg
    THEN get_member_ref(reg, reg[ret.cls].derived_from[i], ObjAddr, ret.name, ret.req, {})
    ELSE Abort

\* C14: a get_member_ref that does not find the name in the table of its own
\* reflection and returns, returns what the first declared base, in
\* derives_from order, that yields a non-null pointer yields, and returns null
\* only when every declared base yields null; with Derived declaring Base as
\* its only base and Base registering x, get_member_ref<int> on the
\* reflection of Derived returns the pointer to x.
C14_Delegation ==
    /\ (/\ ret.op = "get_member_ref"
        /\ ~RetInOwnTable
        /\ ret.kind \in {"ptr", "null"})
           => /\ ret.kind = "ptr"
                    => \E i \in 1..Len(reg[ret.cls].derived_from) :
                          /\ BaseYields(i) = Ptr(ret.addr)
                          /\ \A j \in 1..(i - 1) : BaseYields(j) = Null
              /\ ret.kind = "null"
                    => \A i \in 1..Len(reg[ret.cls].derived_from) : BaseYields(i) = Null
    /\ (/\ ret.op = "get_member_ref"
        /\ ret.cls = "Derived"
        /\ ~RetInOwnTable
        /\ reg["Derived"].derived_from = <<"Base">>
        /\ ret.name \in DOMAIN reg["Base"].offsets
        /\ \E f \in Fields : f.name = "x" /\ RecordOf(reg["Base"].offsets[ret.name], f)
        /\ ret.req = t_int)
           => /\ ret.kind = "ptr"
              /\ ret.addr = ObjAddr
              /\ ret.val = obj.x

\* the first declared base yields null and the second the pointer returned
C14_Witness ==
    /\ ret.op = "get_member_ref"
    /\ ret.cls = "Derived"
    /\ ~RetInOwnTable
    /\ reg["Derived"].derived_from = <<"Vector3", "Base">>
    /\ BaseYields(1) = Null
    /\ ret.kind = "ptr"
    /\ BaseYields(2) = Ptr(ret.addr)

----------------------------------------------------------------------------
(* ArgList *)

\* ArgList objects constructed in one run
MaxLists == 3

\* arguments of one refl_args call
MaxArgs == 1

\* the wrapped arguments lists are made of: the address of an int and of a float
ArgWrappers == {RawObjectWrapper(1, "int"), RawObjectWrapper(2, "float")}

\* the RawObjectWrapperVec values lists are made from
ArgVecs == UNION {[1..n -> ArgWrappers] : n \in 0..MaxArgs}

\* ArgList::ArgList(RawArgList, type_indices, size); args is the address of
\* the array in the heap, 0 for nullptr
ArgList(args, tags, size) == [args |-> args, type_indices |-> tags, size |-> size]

\* new RawArg[n] filled with cells: the heap with the array, whose address is
\* its position
new_array(h, cells) == Append(h, [live |-> TRUE, cells |-> cells, freed |-> 0])

\* delete[] args; delete[] of nullptr does nothing; freed counts the
\* delete[] expressions the array went through
delete_array(h, a) == IF a = 0 THEN h ELSE [h EXCEPT ![a].live = FALSE, ![a].freed = @ + 1]

\* ArgList(const RawObjectWrapperVec&), ArgList(std::initializer_list), refl_args
ReflArgList(ws) ==
    /\ Running
    /\ nlist < MaxLists
    /\ heap' = new_array(heap, [i \in 1..Len(ws) |-> ws[i].addr])
    /\ lists' = emplace(lists, nlist + 1,
                        ArgList(Len(heap) + 1, [i \in 1..Len(ws) |-> ws[i].tag], Len(ws)))
    /\ nlist' = nlist + 1
    /\ ret' = [Call("refl_arg_list", "", "", t_void, <<>>) EXCEPT !.kind = "ok", !.val = nlist + 1]
    /\ UNCHANGED <<reg, obj, nreg, boxvars>>

\* ArgList::empty(), empty_arg_list()
EmptyArgList ==
    /\ Running
    /\ nlist < MaxLists
    /\ lists' = emplace(lists, nlist + 1, ArgList(0, <<>>, 0))
    /\ nlist' = nlist + 1
    /\ ret' = [Call("empty_arg_list", "", "", t_void, <<>>) EXCEPT !.kind = "ok", !.val = nlist + 1]
    /\ UNCHANGED <<reg, obj, nreg, heap, boxvars>>

\* ArgList::ArgList(ArgList&& other): a new object takes the array and the
\* tags of other; other keeps its size
MoveArgList(other) ==
    /\ Running
    /\ nlist < MaxLists
    /\ other \in DOMAIN lists
    /\ lists' = emplace([lists EXCEPT ![other].args = 0, ![other].type_indices = <<>>], nlist + 1,
                        ArgList(lists[other].args, lists[other].type_indices, lists[other].size))
    /\ nlist' = nlist + 1
    /\ ret' = [Call("move_arg_list", "", "", t_void, <<other>>) EXCEPT !.kind = "ok", !.val = nlist + 1]
    /\ UNCHANGED <<reg, obj, nreg, heap, boxvars>>

\* ArgList::~ArgList
DestroyArgList(l) ==
    /\ Running
    /\ l \in DOMAIN lists
    /\ heap' = delete_array(heap, lists[l].args)
    /\ lists' = [k \in DOMAIN lists \ {l} |-> lists[k]]
    /\ ret' = [Call("destroy_arg_list", "", "", t_void, <<l>>) EXCEPT !.kind = "ok"]
    /\ UNCHANGED <<reg, obj, nreg, nlist, boxvars>>

\* the loops of operator| read size entries through args; through nullptr
\* the read is undefined
reads_null(lst) == lst.args = 0 /\ lst.size > 0

\* lst.args[0 .. size-1]; what a read through nullptr gives, when it gives
\* anything, is taken to be 0
args_read(h, lst) ==
    IF lst.args = 0 THEN [i \in 1..lst.size |-> 0] ELSE [i \in 1..lst.size |-> h[lst.args].cells[i]]

\* the merged array with the entries of rhs before those of lhs
merged_args_swapped(h, lhs, rhs) == args_read(h, rhs) \o args_read(h, lhs)

\* merged_args of operator|: the entries of lhs, then those of rhs
merged_args(h, lhs, rhs) == args_read(h, lhs) \o args_read(h, rhs)

\* delete[] lhs.args; delete[] rhs.args with both references bound to one
\* object that holds an array: the second delete[] is of the freed array
deletes_twice(ls, lhs, rhs) == lhs = rhs /\ ls[lhs].args # 0

\* what the merge can come to: "crash" is the fault of a read through
\* nullptr, "abort" the allocator ending the program at the second delete[]
\* of one array, "ok" the return
merge_outcomes(ls, lhs, rhs) ==
    {"ok"} \cup (IF reads_null(ls[lhs]) \/ reads_null(ls[rhs]) THEN {"crash"} ELSE {})
           \cup (IF deletes_twice(ls, lhs, rhs) THEN {"abort"} ELSE {})

\* operator|(ArgList&& lhs, ArgList&& rhs), also operator, and
\* merge_arg_list(ArgList&&, ArgList&&); lhs and rhs may be bound to one object
Merge(lhs, rhs) ==
    /\ Running
    /\ nlist < MaxLists
    /\ lhs \in DOMAIN lists
    /\ rhs \in DOMAIN lists
    /\ \E outcome \in merge_outcomes(lists, lhs, rhs) :
          IF outcome = "crash"
          THEN /\ ret' = [Call("merge", "", "", t_void, <<lhs, rhs>>) EXCEPT !.kind = "crash"]
               /\ UNCHANGED argvars
          ELSE IF outcome = "abort"
          THEN /\ heap' = delete_array(delete_array(new_array(heap, merged_args(heap, lists[lhs], lists[rhs])),
                                                    lists[lhs].args),
                                       lists[rhs].args)
               /\ ret' = [Call("merge", "", "", t_void, <<lhs, rhs>>) EXCEPT !.kind = "crash"]
               /\ UNCHANGED <<lists, nlist>>
          ELSE /\ heap' = delete_array(delete_array(new_array(heap, merged_args(heap, lists[lhs], lists[rhs])),
                                                    lists[lhs].args),
                                       lists[rhs].args)
               /\ lists' = emplace([lists EXCEPT ![lhs].args = 0, ![rhs].args = 0], nlist + 1,
                                   ArgList(Len(heap) + 1,
                                           lists[lhs].type_indices \o lists[rhs].type_indices,
                                           lists[lhs].size + lists[rhs].size))
               /\ nlist' = nlist + 1
               /\ ret' = [Call("merge", "", "", t_void, <<lhs, rhs>>) EXCEPT !.kind = "ok", !.val = nlist + 1]
    /\ UNCHANGED <<reg, obj, nreg, boxvars>>

NextArgs ==
    \/ \E ws \in ArgVecs : ReflArgList(ws)
    \/ EmptyArgList
    \/ \E l \in 1..MaxLists : MoveArgList(l)
    \/ \E l \in 1..MaxLists : DestroyArgList(l)
    \/ \E l \in 1..MaxLists, r \in 1..MaxLists : Merge(l, r)

SpecArgs == Init /\ [][NextArgs]_vars

\* the number of entries of the pointer array of an ArgList
Entries(lst) == IF lst.args = 0 THEN 0 ELSE Len(heap[lst.args].cells)

\* the entries an ArgList holds, none for one without an array
EntriesOf(lst) == IF lst.args = 0 THEN <<>> ELSE heap[lst.args].cells

\* the ArgList is as a constructor, empty() or a merge returned it: it owns a
\* live array of size entries, or has none and size 0, and has size tags
Intact(lst) ==
    /\ Len(lst.type_indices) = lst.size
    /\ IF lst.args = 0 THEN lst.size = 0 ELSE heap[lst.args].live /\ Len(heap[lst.args].cells) = lst.size

\* C15: a merge of two ArgLists L and R returns a new ArgList of size
\* |L| + |R| whose array, newly allocated, holds the entries of L followed by
\* those of R and whose tags are those of L followed by those of R; after it
\* the arrays of L and of R are freed and their args are null.
C15_Merge ==
    [][(/\ ret'.op = "merge"
        /\ ret'.kind = "ok"
        /\ Intact(lists[ret'.rargs[1]])
        /\ Intact(lists[ret'.rargs[2]]))
           => /\ ret'.val \notin DOMAIN lists
              /\ ret'.val \in DOMAIN lists'
              /\ lists'[ret'.val].size = lists[ret'.rargs[1]].size + lists[ret'.rargs[2]].size
              /\ lists'[ret'.val].args \notin {0} \cup DOMAIN heap
              /\ heap'[lists'[ret'.val].args].live
              /\ heap'[lists'[ret'.val].args].cells
                     = EntriesOf(lists[ret'.rargs[1]]) \o EntriesOf(lists[ret'.rargs[2]])
              /\ lists'[ret'.val].type_indices
                     = lists[ret'.rargs[1]].type_indices \o lists[ret'.rargs[2]].type_indices
              /\ \A o \in {ret'.rargs[1], ret'.rargs[2]} :
                     /\ lists'[o].args = 0
                     /\ lists[o].args # 0 => ~heap'[lists[o].args].live]_vars

\* a merge of a list holding the int with a list holding the float was made
C15_Witness ==
    /\ ret.op = "merge"
    /\ ret.kind = "ok"
    /\ ret.val \in DOMAIN lists
    /\ lists[ret.val].size = 2
    /\ lists[ret.val].args # 0
    /\ heap[lists[ret.val].args].cells = <<1, 2>>
    /\ lists[ret.val].type_indices = <<"int", "float">>
    /\ lists[ret.rargs[1]].args = 0
    /\ lists[ret.rargs[2]].args = 0

\* C16: every ArgList object has as many entries in its pointer array as it
\* has type tags, and that number is its size field.
C16_SizesAgree ==
    \A l \in DOMAIN lists :
        /\ Entries(lists[l]) = Len(lists[l].type_indices)
        /\ Len(lists[l].type_indices) = lists[l].size

----------------------------------------------------------------------------
(* ReturnValueProxy and PhantomDataHelper *)

\* invocations that box a return value in one run
MaxBoxes == 2

\* entries of the PhantomDataHelper, and handles the client holds, at one time
MaxHandles == 1

\* the identifiers a ReturnValueProxy is stored under
ProxyIds == {"proxy", "other"}

\* std::make_shared<ValueType>: a new control block with one owner
make_shared(bx) == Append(bx, [use_count |-> 1, destroyed |-> 0])

\* copy of a std::shared_ptr
acquire(bx, b) == [bx EXCEPT ![b].use_count = @ + 1]

\* a release that destroys the value whoever else owns it
release_destroy(bx, b) == [bx EXCEPT ![b].use_count = @ - 1, ![b].destroyed = @ + 1]

\* destruction or reassignment of a std::shared_ptr: the value is destroyed
\* when the last owner is gone
release(bx, b) ==
    IF bx[b].use_count = 1
    THEN [bx EXCEPT ![b].use_count = 0, ![b].destroyed = @ + 1]
    ELSE [bx EXCEPT ![b].use_count = @ - 1]

\* the handle of the box without a new owner
duplicate_inner_unowned(bx, b) == bx

\* ReturnValueProxy::duplicate_inner, get_ptr, phantom, to_shared and the
\* copy constructor: a copy of ptr
duplicate_inner(bx, b) == acquire(bx, b)

\* the pops of PhantomDataHelper::clear and ~PhantomDataHelper
RECURSIVE pop_all(_, _)
pop_all(bx, stack) ==
    IF stack = <<>> THEN bx ELSE pop_all(release(bx, stack[Len(stack)]), SubSeq(stack, 1, Len(stack) - 1))

\* id = reflection.invoke_function(...): the result is boxed in a temporary
\* proxy, copied into id (by the copy constructor when id is declared here,
\* by the copy assignment when it holds a proxy), and the temporary ends
InvokeInto(id) ==
    /\ Running
    /\ Len(boxes) < MaxBoxes
    /\ LET new == Len(boxes) + 1
           copied == duplicate_inner(make_shared(boxes), new)
           assigned == IF id \in DOMAIN proxies THEN release(copied, proxies[id]) ELSE copied
       IN  /\ boxes' = release(assigned, new)
           /\ proxies' = [k \in DOMAIN proxies \cup {id} |-> IF k = id THEN new ELSE proxies[k]]
           /\ ret' = [Call("invoke_into", "", id, t_void, <<>>) EXCEPT !.kind = "ok", !.val = new]
    /\ UNCHANGED <<reg, obj, nreg, argvars, phantom, handles, raw>>

\* dst = src, ReturnValueProxy dst(src), dst = src.duplicate()
CopyProxy(src, dst) ==
    /\ Running
    /\ src \in DOMAIN proxies
    /\ LET copied == duplicate_inner(boxes, proxies[src])
       IN  boxes' = IF dst \in DOMAIN proxies THEN release(copied, proxies[dst]) ELSE copied
    /\ proxies' = [k \in DOMAIN proxies \cup {dst} |-> IF k = dst THEN proxies[src] ELSE proxies[k]]
    /\ ret' = [Call("copy_proxy", "", dst, t_void, <<>>) EXCEPT !.kind = "ok", !.val = proxies[src]]
    /\ UNCHANGED <<reg, obj, nreg, argvars, phantom, handles, raw>>

\* the proxy stored under id goes out of scope
DestroyProxy(id) ==
    /\ Running
    /\ id \in DOMAIN proxies
    /\ boxes' = release(boxes, proxies[id])
    /\ proxies' = [k \in DOMAIN proxies \ {id} |-> proxies[k]]
    /\ ret' = [Call("destroy_proxy", "", id, t_void, <<>>) EXCEPT !.kind = "ok", !.val = proxies[id]]
    /\ UNCHANGED <<reg, obj, nreg, argvars, phantom, handles, raw>>

\* void* ptr = id.get_raw()
GetRaw(id) ==
    /\ Running
    /\ id \in DOMAIN proxies
    /\ raw' = proxies[id]
    /\ ret' = [Call("get_raw", "", id, t_void, <<>>) EXCEPT !.kind = "ok", !.val = proxies[id]]
    /\ UNCHANGED <<reg, obj, nreg, argvars, boxes, proxies, phantom, handles>>

\* auto h = id.duplicate_inner(), id.get_ptr(), id.phantom(), id.to_shared()
DuplicateInner(id) ==
    /\ Running
    /\ id \in DOMAIN proxies
    /\ Len(handles) < MaxHandles
    /\ boxes' = duplicate_inner(boxes, proxies[id])
    /\ handles' = Append(handles, proxies[id])
    /\ ret' = [Call("duplicate_inner", "", id, t_void, <<>>) EXCEPT !.kind = "ok", !.val = proxies[id]]
    /\ UNCHANGED <<reg, obj, nreg, argvars, proxies, phantom, raw>>

\* the i-th handle the client holds goes out of scope
DropHandle(i) ==
    /\ Running
    /\ i \in 1..Len(handles)
    /\ boxes' = release(boxes, handles[i])
    /\ handles' = SubSeq(handles, 1, i - 1) \o SubSeq(handles, i + 1, Len(handles))
    /\ ret' = [Call("drop_handle", "", "", t_void, <<>>) EXCEPT !.kind = "ok", !.val = handles[i]]
    /\ UNCHANGED <<reg, obj, nreg, argvars, proxies, phantom, raw>>

\* phantom.push(id.duplicate_inner()), phantom << id, id >> phantom
Push(id) ==
    /\ Running
    /\ id \in DOMAIN proxies
    /\ Len(phantom) < MaxHandles
    /\ boxes' = duplicate_inner(boxes, proxies[id])
    /\ phantom' = Append(phantom, proxies[id])
    /\ ret' = [Call("push", "", id, t_void, <<>>) EXCEPT !.kind = "ok", !.val = proxies[id]]
    /\ UNCHANGED <<reg, obj, nreg, argvars, proxies, handles, raw>>

\* phantom.push(h), phantom << h, h >> phantom for the i-th handle the client
\* holds: the parameter is a copy of h
PushHandle(i) ==
    /\ Running
    /\ i \in 1..Len(handles)
    /\ Len(phantom) < MaxHandles
    /\ boxes' = acquire(boxes, handles[i])
    /\ phantom' = Append(phantom, handles[i])
    /\ ret' = [Call("push_handle", "", "", t_void, <<>>) EXCEPT !.kind = "ok", !.val = handles[i]]
    /\ UNCHANGED <<reg, obj, nreg, argvars, proxies, handles, raw>>

\* PhantomDataHelper::clear
Clear ==
    /\ Running
    /\ boxes' = pop_all(boxes, phantom)
    /\ phantom' = <<>>
    /\ ret' = [Call("clear", "", "", t_void, <<>>) EXCEPT !.kind = "ok"]
    /\ UNCHANGED <<reg, obj, nreg, argvars, proxies, handles, raw>>

\* PhantomDataHelper::~PhantomDataHelper, a new helper being declared after it
DestroyHelper ==
    /\ Running
    /\ boxes' = pop_all(boxes, phantom)
    /\ phantom' = <<>>
    /\ ret' = [Call("destroy_helper", "", "", t_void, <<>>) EXCEPT !.kind = "ok"]
    /\ UNCHANGED <<reg, obj, nreg, argvars, proxies, handles, raw>>

NextBoxes ==
    \/ \E id \in ProxyIds : InvokeInto(id)
    \/ \E src \in ProxyIds, dst \in ProxyIds : CopyProxy(src, dst)
    \/ \E id \in ProxyIds : DestroyProxy(id)
    \/ \E id \in ProxyIds : GetRaw(id)
    \/ \E id \in ProxyIds : DuplicateInner(id)
    \/ \E i \in 1..MaxHandles : DropHandle(i)
    \/ \E id \in ProxyIds : Push(id)
    \/ \E i \in 1..MaxHandles : PushHandle(i)
    \/ Clear
    \/ DestroyHelper

SpecBoxes == Init /\ [][NextBoxes]_vars

\* the number of positions of the sequence s that hold b
Count(s, b) == Cardinality({i \in 1..Len(s) : s[i] = b})

\* the number of live owning handles of the box b among the proxies px, the
\* helper entries ph and the client's handles hs
Owners(px, ph, hs, b) == Cardinality({id \in DOMAIN px : px[id] = b}) + Count(ph, b) + Count(hs, b)

\* C17: after every step each boxed value has been destroyed once if it has
\* no live owning handle and never if it has one, and a step destroys a value
\* exactly when it takes the number of its live owning handles to zero.
C17_DestroyedAtZero ==
    [][\A b \in 1..Len(boxes') :
          /\ boxes'[b].destroyed = (IF Owners(proxies', phantom', handles', b) = 0 THEN 1 ELSE 0)
          /\ b \in 1..Len(boxes)
                => (boxes'[b].destroyed > boxes[b].destroyed
                       <=> /\ Owners(proxies, phantom, handles, b) > 0
                           /\ Owners(proxies', phantom', handles', b) = 0)]_vars

\* a value that had outlived its proxy in the helper was destroyed by clear,
\* while another value is owned by a proxy and a handle
C17_Witness ==
    /\ ret.op = "clear"
    /\ Len(boxes) = 2
    /\ boxes[1].destroyed = 1
    /\ boxes[2].destroyed = 0
    /\ Owners(proxies, phantom, handles, 2) = 2

\* C18: a push puts a handle of the proxy's value on the helper; a value with
\* a handle on the helper is alive, and the pointer get_raw() gave to it
\* valid, after every step that is not a clear or the destruction of the
\* helper, the reassignment of the identifier included; a reassignment of an
\* identifier whose proxy is the only owner of its value destroys the value.
C18_PhantomKeepsAlive ==
    [][/\ ret'.op = "push"
              => /\ phantom' = Append(phantom, proxies[ret'.name])
                 /\ boxes'[proxies[ret'.name]].destroyed = 0
       /\ ret'.op \notin {"clear", "destroy_helper"}
              => \A i \in 1..Len(phantom) :
                    /\ i <= Len(phantom')
                    /\ phantom'[i] = phantom[i]
                    /\ boxes'[phantom[i]].destroyed = 0
       /\ (/\ ret'.op = "invoke_into"
           /\ ret'.name \in DOMAIN proxies
           /\ Owners(proxies, phantom, handles, proxies[ret'.name]) = 1)
              => /\ boxes[proxies[ret'.name]].destroyed = 0
                 /\ boxes'[proxies[ret'.name]].destroyed = 1]_vars

\* the identifier was reassigned after get_raw() and a push: the first value
\* is alive, owned by the helper alone
C18_Witness ==
    /\ ret.op = "invoke_into"
    /\ raw = 1
    /\ proxies = [id \in {"proxy"} |-> 2]
    /\ phantom = <<1>>
    /\ handles = <<>>
    /\ boxes[1].destroyed = 0
    /\ boxes[1].use_count = 1

\* the identifier was reassigned with no handle retained: the first value,
\* which get_raw() pointed to, is destroyed
C18_WitnessDestroyed ==
    /\ ret.op = "invoke_into"
    /\ raw = 1
    /\ proxies = [id \in {"proxy"} |-> 2]
    /\ phantom = <<>>
    /\ boxes[1].destroyed = 1

----------------------------------------------------------------------------
(* Metadata, checked under SpecIntrospect *)

\* C21: a key is in the metadata table of a ReflectionBase exactly from the
\* first attach_metadata of it on, with the value that attach tagged (a later
\* attach of the same key leaves the entry as it is); has_metadata(k) tells
\* whether k is in the table; get_metadata(k) returns the entry of k and
\* throws metadata_not_found_exception made with k when there is none;
\* attach_metadata changes neither the member table nor the callable table,
\* and no other operation changes the metadata table.
C21_Metadata ==
    [][/\ \A c \in DOMAIN reg :
              IF ret'.op = "attach_metadata" /\ ret'.cls = c
              THEN /\ reg'[c].offsets = reg[c].offsets
                   /\ reg'[c].funcs = reg[c].funcs
                   /\ DOMAIN reg'[c].metadata = DOMAIN reg[c].metadata \cup {ret'.name}
                   /\ \A k \in DOMAIN reg[c].metadata : reg'[c].metadata[k] = reg[c].metadata[k]
                   /\ ret'.name \notin DOMAIN reg[c].metadata
                         => /\ reg'[c].metadata[ret'.name].type_index = typeid(ret'.req)
                            /\ reg'[c].metadata[ret'.name].data = ret'.val
              ELSE reg'[c].metadata = reg[c].metadata
       /\ \A c \in DOMAIN reg' \ DOMAIN reg : reg'[c].metadata = EmptyMap
       /\ ret'.op = "has_metadata"
              => ret'.kind = "ok" /\ ret'.val = (ret'.name \in DOMAIN reg[ret'.cls].metadata)
       /\ ret'.op = "get_metadata"
              => IF ret'.name \in DOMAIN reg[ret'.cls].metadata
                 THEN ret'.kind = "ok" /\ ret'.val = reg[ret'.cls].metadata[ret'.name]
                 ELSE /\ ret'.kind = "throw"
                      /\ ret'.exc = "metadata_not_found_exception"
                      /\ ret'.excname = ret'.name]_vars

\* get_metadata returned the value attached under a key while a member and a
\* callable are registered on the same ReflectionBase
C21_Witness ==
    /\ ret.op = "get_metadata"
    /\ ret.kind = "ok"
    /\ ret.val = make_metadata(2)
    /\ DOMAIN reg[ret.cls].offsets # {}
    /\ DOMAIN reg[ret.cls].funcs # {}

----------------------------------------------------------------------------
(* Type-erased member lookup, checked under SpecMembers *)

\* C22: a get_member_wrapped that comes to an end, for a name that no member
\* table of the registry holds, returns the none sentinel (null address,
\* type void) and throws nothing.
C22_MissingNameNone ==
    (/\ ret.op = "get_member_wrapped"
     /\ ret.kind # "diverge"
     /\ \A c \in DOMAIN reg : ret.name \notin DOMAIN reg[c].offsets)
        => /\ ret.kind = "none"
           /\ ret.addr = 0
           /\ ret.tag = "void"
           /\ ret.exc = ""

\* C23: no member lookup recurses without end: every get_member_ref and
\* get_member_wrapped comes to an end, whatever bases derives_from declared.
C23_LookupTerminates ==
    ret.op \in {"get_member_ref", "get_member_wrapped"} => ret.kind # "diverge"

----------------------------------------------------------------------------
(* Registration against access, invocation and introspection *)

\* ReflectionBase::get_member_map: the type of each registered member
get_member_map(r, c) == [n \in DOMAIN r[c].offsets |-> <<n, r[c].offsets[n].type_info>>]

\* refl.get_member_map()
GetMemberMap(c) ==
    /\ Running
    /\ c \in DOMAIN reg
    /\ ret' = [Call("get_member_map", c, "", t_void, <<>>) EXCEPT !.kind = "ok", !.val = get_member_map(reg, c)]
    /\ UNCHANGED <<reg, obj, nreg>>
    /\ UNCHANGED <<argvars, boxvars>>

\* what a thunk reads through a null argument array: -1 is the fault of the
\* read, any other value is what the read yields
NullRead == {-1, 0, 1}

\* ReturnValueProxy invoke_method(ClassType*, name): the first overload of the
\* name is called with nullptr for the arguments, whatever its parameters are
invoke_method_noargs(r, c, o, n, u) ==
    LET fns == overloads(r, c, n)
        idx == IF fns = <<>> THEN <<>> ELSE <<1>>
        arity == IF fns = <<>> THEN 0 ELSE Len(fns[1].arg_types)
        out == invoke_first(fns, idx, o, FALSE, n, [i \in 1..arity |-> IF u < 0 THEN 0 ELSE u])
    IN  IF arity > 0 /\ u < 0
        THEN [out EXCEPT !.kind = "crash", !.obj = o, !.val = 0]
        ELSE out

\* ReturnValueProxy invoke_function(name): the first overload without
\* parameters is called with nullptr for the object and the arguments
invoke_function_noargs(r, c, o, n) ==
    LET fns == overloads(r, c, n)
        accepted == {i \in 1..Len(fns) : fns[i].arg_types = <<>>}
    IN  invoke_first(fns, FirstMatch(fns, accepted), o, TRUE, n, <<>>)

\* refl.invoke_method(&object, n)
InvokeMethodNoArgs(c, n) ==
    /\ Running
    /\ c \in DOMAIN reg
    /\ c \in CppBases(ObjClass)
    /\ \E u \in NullRead :
           Invoked("invoke_method_noargs", c, n, t_void, <<>>, invoke_method_noargs(reg, c, obj, n, u))

\* refl.invoke_function(n)
InvokeFunctionNoArgs(c, n) ==
    /\ Running
    /\ c \in DOMAIN reg
    /\ Invoked("invoke_function_noargs", c, n, t_void, <<>>, invoke_function_noargs(reg, c, obj, n))

\* the methods registered in this part
FrameIds == IntrospectIds \cup {"overload_add_x_int"}

\* the argument types the calls of this part are made with
FrameArgs == {<<>>, <<t_int>>}

NextFrame ==
    \/ \E c \in Classes : MakeReflection(c)
    \/ \E f \in Fields : RegisterMember("Base", "a", f)
    \/ DerivesFrom("Derived", "Base")
    \/ \E id \in FrameIds : RegisterMethod("Base", "a", id)
    \/ RegisterFunction("Base", "a", "ctor")
    \/ \E v \in MetaVals : AttachMetadata("Base", "a", v)
    \/ \E c \in Classes, n \in Names : GetMemberRef(c, n, t_int)
    \/ \E c \in Classes, n \in Names : GetMemberWrapped(c, n)
    \/ \E c \in Classes, n \in Names, v \in Vals : SetMember(c, n, t_int, v)
    \/ \E c \in Classes, n \in Names : IsMemberConst(c, n, t_int)
    \/ \E c \in Classes, n \in Names : IsMethodConst(c, n)
    \/ \E c \in Classes, n \in Names, A \in FrameArgs : InvokeMethodRet(c, n, t_int, A)
    \/ \E c \in Classes, n \in Names, A \in FrameArgs : InvokeMethodVoidArgs(c, n, A)
    \/ \E c \in Classes, n \in Names : InvokeMethodVoid(c, n)
    \/ \E c \in Classes, n \in Names, A \in FrameArgs : InvokeFunctionRet(c, n, t_int, A)
    \/ \E c \in Classes, n \in Names, A \in FrameArgs : InvokeMethodArgList(c, n, A)
    \/ \E c \in Classes, n \in Names, A \in FrameArgs : InvokeFunctionArgList(c, n, A)
    \/ \E c \in Classes, n \in Names : InvokeMethodNoArgs(c, n)
    \/ \E c \in Classes, n \in Names : InvokeFunctionNoArgs(c, n)
    \/ \E c \in Classes : GetMemberMap(c)
    \/ \E c \in Classes : GetCallableMap(c)
    \/ \E c \in Classes, k \in MetaKeys : GetMetadata(c, k)
    \/ \E c \in Classes, k \in MetaKeys : HasMetadata(c, k)
    \/ \E c \in Classes : GetReflection(c)

SpecFrame == Init /\ [][NextFrame]_vars

\* the operations that register
RegistrationOps ==
    {"make_reflection", "register_member", "register_method", "register_function",
     "derives_from", "attach_metadata"}

\* the operations that access, invoke or inspect
AccessOps ==
    {"get_member_ref", "get_member_wrapped", "set_member", "is_member_const", "is_method_const",
     "invoke_method_ret", "invoke_method_void_args", "invoke_method_void", "invoke_method_arglist",
     "invoke_function_ret", "invoke_function_arglist", "invoke_method_noargs",
     "invoke_function_noargs", "get_member_map", "get_callable_map",
     "get_metadata", "has_metadata", "get_reflection"}

----------------------------------------------------------------------------
(* Invocation without an argument list, checked under SpecFrame *)

\* the overloads of the call's name registered without parameters
ZeroArg == {i \in 1..Len(RetOverloads) : RetOverloads[i].arg_types = <<>>}

\* C25: invoke_method(object, name) without an ArgList runs only the first
\* overload in registration order that was registered without parameters;
\* when the name has no such overload it throws method_not_found_exception
\* and runs no thunk.
C25_ZeroArgOnly ==
    ret.op = "invoke_method_noargs"
        => IF ZeroArg = {}
           THEN ret.kind = "throw" /\ ret.exc = "method_not_found_exception" /\ ret.ran = <<>>
           ELSE \E i \in ZeroArg :
                    /\ \A j \in ZeroArg : i <= j
                    /\ ret.ran = <<RetOverloads[i].callable>>

\* C26: invoke_function, with an ArgList or without arguments, runs only a
\* CallableWrapper whose parent type is the marker of a free function.
C26_FreeFunctionsOnly ==
    ret.op \in {"invoke_function_arglist", "invoke_function_noargs"}
        => \A k \in 1..Len(ret.ran) :
               \E i \in 1..Len(RetOverloads) :
                   /\ RetOverloads[i].callable = ret.ran[k]
                   /\ RetOverloads[i].parent_type = "monostate"

----------------------------------------------------------------------------
(* Reading and writing a member by name, checked under SpecMembers *)

\* the member behind the wrapper of ret is not const
RetWritable == \A f \in Fields : f.name = FieldAt(ret.addr) => ~is_const_v(f.type)

\* C27: when get_member_wrapped(object, name) has returned a wrapper with tag
\* t for a member that is not const, set_member(object, name, v) on the same
\* reflection with a value of tag t succeeds and the member then holds v,
\* also when the name is registered only on a declared base.
C27_ReadWriteAgree ==
    [][(/\ ret.op = "get_member_wrapped"
        /\ ret.kind = "wrapper"
        /\ RetWritable
        /\ ret'.op = "set_member"
        /\ ret'.cls = ret.cls
        /\ ret'.name = ret.name
        /\ typeid(ret'.req) = ret.tag)
           => /\ ret'.kind = "ok"
              /\ Deref(obj', ret.addr) = ret'.val]_vars

----------------------------------------------------------------------------
(* One reflection per type, checked under SpecFrame *)

\* C28: the registry holds one ReflectionBase per type. make_reflection of a
\* type that is registered inserts nothing, leaves every reflection as it was
\* and returns the existing one, with everything registered on it before;
\* make_reflection of a type that is not registered adds an empty reflection
\* for it and leaves the others as they were.
C28_MakeOnce ==
    [][ret'.op = "make_reflection"
          => /\ ret'.val = reg'[ret'.cls]
             /\ \A c \in DOMAIN reg' : reg'[c].type = c
             /\ IF ret'.cls \in DOMAIN reg
                THEN reg' = reg /\ ret'.val = reg[ret'.cls]
                ELSE /\ DOMAIN reg' = DOMAIN reg \cup {ret'.cls}
                     /\ \A c \in DOMAIN reg : reg'[c] = reg[c]
                     /\ ret'.val = ReflectionBase(ret'.cls)]_vars

\* a second make_reflection returned the reflection with the member and the
\* callable registered before
C28_Witness ==
    /\ ret.op = "make_reflection"
    /\ DOMAIN ret.val.offsets # {}
    /\ DOMAIN ret.val.funcs # {}

----------------------------------------------------------------------------
(* Callables of a declared base, checked under SpecFrame *)

\* a declared and registered base of the call's reflection has an overload of
\* the call's name with the call's argument tags
BaseHasOverload ==
    \E i \in 1..Len(reg[ret.cls].derived_from) :
        /\ reg[ret.cls].derived_from[i] \in DOMAIN reg
        /\ TagMatches(ret, overloads(reg, reg[ret.cls].derived_from[i], ret.name)) # {}

\* C30: when the reflection invoke_method is called on has no overload set
\* for the name and a base it declares has a matching overload, the call runs
\* that overload of the base.
C30_CallableDelegation ==
    (/\ ret.op \in {"invoke_method_arglist", "invoke_method_noargs"}
     /\ ret.cls \in DOMAIN reg
     /\ ret.name \notin DOMAIN reg[ret.cls].funcs
     /\ BaseHasOverload)
        => /\ ret.kind = "ok"
           /\ \E i \in 1..Len(reg[ret.cls].derived_from) :
                  /\ reg[ret.cls].derived_from[i] \in DOMAIN reg
                  /\ \E k \in TagMatches(ret, overloads(reg, reg[ret.cls].derived_from[i], ret.name)) :
                         ret.ran = <<overloads(reg, reg[ret.cls].derived_from[i], ret.name)[k].callable>>

----------------------------------------------------------------------------
(* Ownership of the pointer arrays, checked under SpecArgs *)

\* the ArgList objects whose args is the array at a
ArrayOwners(a) == {l \in DOMAIN lists : lists[l].args = a}

\* C29: whatever constructions, move constructions, merges and destructions
\* were made, every array allocated has at most one ArgList owning it, has
\* gone through delete[] at most once, not at all while an ArgList owns it,
\* and exactly once when no ArgList owns it any more.
C29_FreedOnce ==
    \A a \in 1..Len(heap) :
        /\ Cardinality(ArrayOwners(a)) <= 1
        /\ heap[a].freed <= 1
        /\ ArrayOwners(a) # {} => heap[a].freed = 0
        /\ (Running /\ ArrayOwners(a) = {}) => heap[a].freed = 1

====
